---- MODULE Spec2Model ----
(***************************************************************************)
(* A model of the OAI-PMH client of src/src/oai_pmh_client/client.py:      *)
(* request construction, the dispatch through _request, the error mapping  *)
(* and the resumption-token pagination of the generator methods.           *)
(***************************************************************************)
EXTENDS Integers, Sequences, FiniteSets, TLC

VARIABLES client, gens, running, log

vars == <<client, gens, running, log>>

(***************************************************************************)
(* Bounds of the model.                                                    *)
(***************************************************************************)
MaxRequests == 3
MaxPulls == 6
MaxSingle == 2
MaxFormats == 2

(***************************************************************************)
(* Python values: None, str and datetime.                                  *)
(***************************************************************************)
None == [kind |-> "None"]

Str(s) == [kind |-> "str", s |-> s]

\* datetime(year, month, day, hour, minute, second, tzinfo); tzinfo is None
\* (naive) or a fixed offset from UTC in minutes.
NoTz == [kind |-> "None"]

Tz(offset) == [kind |-> "timezone", offset |-> offset]

DateTime(y, mo, d, h, mi, s, tz) ==
    [kind |-> "datetime", year |-> y, month |-> mo, day |-> d,
     hour |-> h, minute |-> mi, second |-> s, tzinfo |-> tz]

\* Python truth value of an Optional[str | datetime]
Truthy(v) ==
    CASE v.kind = "None" -> FALSE
      [] v.kind = "str" -> v.s # ""
      [] OTHER -> TRUE

(***************************************************************************)
(* The proleptic Gregorian calendar of datetime, as far as astimezone      *)
(* needs it: a shift of less than one day.                                 *)
(***************************************************************************)
IsLeap(y) == (y % 4 = 0) /\ ((y % 100 # 0) \/ (y % 400 = 0))

DaysInMonth(y, m) ==
    CASE m = 2 -> IF IsLeap(y) THEN 29 ELSE 28
      [] m \in {4, 6, 9, 11} -> 30
      [] OTHER -> 31

\* the day before / after a date
PrevDay(dt) ==
    IF dt.day > 1 THEN [dt EXCEPT !.day = dt.day - 1]
    ELSE IF dt.month > 1
         THEN [dt EXCEPT !.month = dt.month - 1,
                         !.day = DaysInMonth(dt.year, dt.month - 1)]
         ELSE [dt EXCEPT !.year = dt.year - 1, !.month = 12, !.day = 31]

NextDay(dt) ==
    IF dt.day < DaysInMonth(dt.year, dt.month) THEN [dt EXCEPT !.day = dt.day + 1]
    ELSE IF dt.month < 12
         THEN [dt EXCEPT !.month = dt.month + 1, !.day = 1]
         ELSE [dt EXCEPT !.year = dt.year + 1, !.month = 1, !.day = 1]

\* the outcome of a call: an exception raised, or a value returned
Raised(kind, message) == [raised |-> TRUE, kind |-> kind, message |-> message]

Returned(value) == [raised |-> FALSE, value |-> value]

\* dt.astimezone(timezone.utc) of an aware datetime; a datetime holds the
\* years 1..9999, and a result outside them is an OverflowError
AsTimezoneUtc(dt) ==
    LET secs == dt.hour * 3600 + dt.minute * 60 + dt.second - dt.tzinfo.offset * 60
        date == IF secs < 0 THEN PrevDay(dt)
                ELSE IF secs >= 86400 THEN NextDay(dt) ELSE dt
        sod  == secs % 86400
    IN IF date.year < 1 \/ date.year > 9999
       THEN Raised("OverflowError", "date value out of range")
       ELSE Returned([date EXCEPT !.hour = sod \div 3600,
                                  !.minute = (sod % 3600) \div 60,
                                  !.second = sod % 60,
                                  !.tzinfo = Tz(0)])

Pad2(n) == IF n < 10 THEN "0" \o ToString(n) ELSE ToString(n)

\* dt.strftime("%Y-%m-%dT%H:%M:%SZ"); the C library prints the year
\* without padding
Strftime(dt) ==
    ToString(dt.year) \o "-" \o Pad2(dt.month) \o "-" \o Pad2(dt.day) \o "T"
      \o Pad2(dt.hour) \o ":" \o Pad2(dt.minute) \o ":" \o Pad2(dt.second) \o "Z"

\* a formatter that prints the local fields of an aware value
FormatDatestampLocalFields(dt) ==
    IF dt.kind = "str" THEN Returned(dt.s) ELSE Returned(Strftime(dt))

\* OAIClient._format_datestamp: the string, or the OverflowError of the
\* conversion to UTC
_format_datestamp(dt) ==
    IF dt.kind = "str" THEN Returned(dt.s)
    ELSE LET aware == IF dt.tzinfo = NoTz THEN [dt EXCEPT !.tzinfo = Tz(0)] ELSE dt
             utc   == AsTimezoneUtc(aware)
         IN IF utc.raised THEN utc ELSE Returned(Strftime(utc.value))

(***************************************************************************)
(* The server's answer to one HTTP request, as the client sees it: whether *)
(* the connection succeeded, the HTTP status, whether the body is          *)
(* well-formed XML, and of the parsed envelope the direct-child error      *)
(* elements, the result elements and the first resumptionToken element,    *)
(* all in document order.                                                  *)
(***************************************************************************)
NoElement == [kind |-> "absent"]

Element(text) == [kind |-> "element", text |-> text]

ErrorElement(code, text) == [code |-> code, text |-> text]

Response(connected, status, wellformed, errors, elements, token) ==
    [connected |-> connected, status |-> status, wellformed |-> wellformed,
     errors |-> errors, elements |-> elements, token |-> token]

\* an element of the envelope at a depth below it: 1 for a child
ElemAt(tag, id, depth) == [tag |-> tag, id |-> id, depth |-> depth]

\* an element where the protocol has it: Identify is a child of the
\* envelope, the others are children of the verb element
Elem(tag, id) == ElemAt(tag, id, IF tag = "Identify" THEN 1 ELSE 2)

\* xml.findall(".//oai:<tag>", namespaces=NS): the descendants
findall(xml, tag) == SelectSeq(xml.elements, LAMBDA e : e.tag = tag)

\* xml.find(".//oai:<tag>", namespaces=NS): the first descendant, or None
find(xml, tag) ==
    IF findall(xml, tag) = <<>> THEN None
    ELSE [kind |-> "element", element |-> findall(xml, tag)[1]]

\* xml.find("oai:<tag>", namespaces=NS): the first child, or None
find_child(xml, tag) ==
    LET children == SelectSeq(xml.elements, LAMBDA e : e.tag = tag /\ e.depth = 1)
    IN IF children = <<>> THEN None
       ELSE [kind |-> "element", element |-> children[1]]

(***************************************************************************)
(* The error taxonomy.                                                     *)
(***************************************************************************)
OAI_ERROR_MAP ==
    [badArgument |-> "BadArgumentError",
     badResumptionToken |-> "BadResumptionTokenError",
     badVerb |-> "BadVerbError",
     cannotDisseminateFormat |-> "CannotDisseminateFormatError",
     idDoesNotExist |-> "IdDoesNotExistError",
     noRecordsMatch |-> "NoRecordsMatchError",
     noMetadataFormats |-> "NoMetadataFormatsError",
     noSetHierarchy |-> "NoSetHierarchyError"]

\* a dispatch that ignores the code attribute
ExceptionClassGeneric(code) == "OAIError"

\* OAI_ERROR_MAP.get(code, OAIError)
ExceptionClass(code) ==
    IF code \in DOMAIN OAI_ERROR_MAP THEN OAI_ERROR_MAP[code] ELSE "OAIError"

\* error.get("code", "") and error.text or ""
OrEmpty(v) == IF v.kind = "None" THEN "" ELSE v.s

(***************************************************************************)
(* OAIClient._request.                                                     *)
(***************************************************************************)
\* params = {"verb": verb} plus the entries of kwargs that are not None
BuildParams(verb, kwargs) ==
    [k \in {"verb"} \cup {x \in DOMAIN kwargs : kwargs[x] # None} |->
        IF k = "verb" THEN verb ELSE kwargs[k].s]

\* a client that ignores use_post
HttpRequestAlwaysGet(c, params) ==
    [method |-> "GET", url |-> c.base_url, params |-> params]

\* self._client.post(self.base_url, data=params) or
\* self._client.get(self.base_url, params=params)
HttpRequest(c, params) ==
    [method |-> IF c.use_post THEN "POST" ELSE "GET",
     url |-> c.base_url,
     params |-> params]

\* response.raise_for_status()
IsSuccess(status) == 200 <= status /\ status <= 299

\* a dispatch that looks for the error element before the HTTP status
HandleResponseErrorFirst(resp) ==
    IF ~resp.connected THEN Raised("httpx.ConnectError", "")
    ELSE IF resp.wellformed /\ resp.errors # <<>>
         THEN LET error == resp.errors[1]
              IN Raised(ExceptionClass(OrEmpty(error.code)), OrEmpty(error.text))
    ELSE IF ~IsSuccess(resp.status) THEN Raised("httpx.HTTPStatusError", "")
    ELSE IF ~resp.wellformed THEN Raised("lxml.etree.XMLSyntaxError", "")
    ELSE Returned([elements |-> resp.elements, token |-> resp.token])

\* a dispatch that reports the last error element of the envelope
HandleResponseLastError(resp) ==
    IF ~resp.connected THEN Raised("httpx.ConnectError", "")
    ELSE IF ~IsSuccess(resp.status) THEN Raised("httpx.HTTPStatusError", "")
    ELSE IF ~resp.wellformed THEN Raised("lxml.etree.XMLSyntaxError", "")
    ELSE IF resp.errors # <<>>
         THEN LET error == resp.errors[Len(resp.errors)]
              IN Raised(ExceptionClass(OrEmpty(error.code)), OrEmpty(error.text))
         ELSE Returned([elements |-> resp.elements, token |-> resp.token])

\* what _request does with the response: raise, or return the parsed tree
HandleResponse(resp) ==
    IF ~resp.connected THEN Raised("httpx.ConnectError", "")
    ELSE IF ~IsSuccess(resp.status) THEN Raised("httpx.HTTPStatusError", "")
    ELSE IF ~resp.wellformed THEN Raised("lxml.etree.XMLSyntaxError", "")
    ELSE IF resp.errors # <<>>
         THEN LET error == resp.errors[1]
              IN Raised(ExceptionClass(OrEmpty(error.code)), OrEmpty(error.text))
         ELSE Returned([elements |-> resp.elements, token |-> resp.token])

(***************************************************************************)
(* The response model parsers (models.py).                                 *)
(***************************************************************************)
\* Set.from_xml, Header.from_xml, Record.from_xml, MetadataFormat.from_xml,
\* Identify.from_xml: the typed entity built from one element
from_xml(cls, element) == [cls |-> cls, element |-> element.id]

\* ResumptionToken.from_xml: the token's value is the element's text
ResumptionToken_from_xml(token_element) == [value |-> token_element.text]

(***************************************************************************)
(* The verb methods.  A generator method is a record: its arguments, its   *)
(* position pc ("created": called, body not started; "request": about to   *)
(* call _request; "iterate": in the for loop over the page's elements;     *)
(* "yielded": suspended at the yield; "finished"), its local params, xml   *)
(* and the index of the for loop.                                          *)
(***************************************************************************)
EmptyDict == [k \in {} |-> None]

Args(identifier, metadata_prefix, from_date, until_date, set_spec) ==
    [identifier |-> identifier, metadata_prefix |-> metadata_prefix,
     from_date |-> from_date, until_date |-> until_date, set_spec |-> set_spec]

NoArgs == Args(None, None, None, None, None)

\* the element each verb method extracts and the entity it builds
ElementTag(verb) ==
    CASE verb = "ListSets" -> "set"
      [] verb = "ListIdentifiers" -> "header"
      [] verb = "ListRecords" -> "record"
      [] verb = "ListMetadataFormats" -> "metadataFormat"
      [] verb = "GetRecord" -> "record"
      [] verb = "Identify" -> "Identify"

EntityClass(verb) ==
    CASE verb = "ListSets" -> "Set"
      [] verb = "ListIdentifiers" -> "Header"
      [] verb = "ListRecords" -> "Record"
      [] verb = "ListMetadataFormats" -> "MetadataFormat"
      [] verb = "GetRecord" -> "Record"
      [] verb = "Identify" -> "Identify"

\* every generator method following resumption tokens
PaginatedAll(verb) == TRUE

\* list_sets, list_identifiers and list_records loop over resumption tokens
Paginated(verb) == verb \in {"ListSets", "ListIdentifiers", "ListRecords"}

\* "from": self._format_datestamp(from_date) if from_date else None
DatestampParam(date) ==
    IF Truthy(date)
    THEN LET formatted == _format_datestamp(date)
         IN IF formatted.raised THEN formatted ELSE Returned(Str(formatted.value))
    ELSE Returned(None)

\* the params each generator method builds before its first request, or
\* the exception of formatting from_date, else until_date
InitialParams(verb, args) ==
    CASE verb = "ListSets" -> Returned(EmptyDict)
      [] verb = "ListMetadataFormats" ->
            IF Truthy(args.identifier)
            THEN Returned([identifier |-> args.identifier]) ELSE Returned(EmptyDict)
      [] OTHER ->
            LET from  == DatestampParam(args.from_date)
                until == DatestampParam(args.until_date)
            IN IF from.raised THEN from
               ELSE IF until.raised THEN until
               ELSE Returned([metadataPrefix |-> args.metadata_prefix,
                              from |-> from.value,
                              until |-> until.value,
                              set |-> args.set_spec])

\* pagination that stops only when the element is missing
LastPageOnlyWithoutElement(token_element) == token_element = NoElement

\* a traversal that never follows a resumption token
LastPageAlways(token_element) == TRUE

\* token_element is None or not token_element.text
LastPage(token_element) ==
    \/ token_element = NoElement
    \/ ~Truthy(token_element.text)

\* params["resumptionToken"] = token.value, keeping the previous params
ResumptionParamsKeepingSelection(params, token_element) ==
    [resumptionToken |-> ResumptionToken_from_xml(token_element).value] @@ params

\* params = {"resumptionToken": token.value}, replacing the previous params
ResumptionParams(params, token_element) ==
    [resumptionToken |-> ResumptionToken_from_xml(token_element).value]

\* a loop that visits the page's elements last to first
NextElementReversed(elements, idx) == elements[Len(elements) - idx]

\* the element the for loop over findall's result visits at position idx
NextElement(elements, idx) == elements[idx + 1]

\* an iterator that starts over after a failed dispatch
AfterFailureRestart(g) == [g EXCEPT !.pc = "created"]

\* an iterator that stays suspended after a failed dispatch, so that the
\* next pull repeats the request
AfterFailureRetry(g) == [g EXCEPT !.pc = "yielded"]

\* an exception that leaves the generator's body ends the generator
AfterFailure(g) == [g EXCEPT !.pc = "finished"]

NoXml == [elements |-> <<>>, token |-> NoElement]

NewGen(verb, args) ==
    [verb |-> verb, args |-> args, pc |-> "created",
     params |-> EmptyDict, xml |-> NoXml, idx |-> 0]

(***************************************************************************)
(* The log of what the client does, in order: the consumer's next() calls, *)
(* the HTTP requests with the responses they got, the items yielded, the   *)
(* exceptions raised, the StopIteration of an exhausted generator and the  *)
(* values returned by identify and get_record.  gen is the generator's     *)
(* index in gens, or 0 for the methods that are not generators.            *)
(***************************************************************************)
NextEvent(t) == [type |-> "next", gen |-> t]

RequestEvent(t, request, resp) ==
    [type |-> "request", gen |-> t, request |-> request, response |-> resp]

YieldEvent(t, item) == [type |-> "yield", gen |-> t, item |-> item]

RaiseEvent(t, kind, message) ==
    [type |-> "raise", gen |-> t, kind |-> kind, message |-> message]

StopEvent(t) == [type |-> "stop", gen |-> t]

ReturnEvent(t, value) == [type |-> "return", gen |-> t, value |-> value]

Count(type) == Len(SelectSeq(log, LAMBDA e : e.type = type))

(***************************************************************************)
(* What the server may answer.                                             *)
(***************************************************************************)
Ok(elements, token) == Response(TRUE, 200, TRUE, <<>>, elements, token)

\* result pages for the element a verb extracts
Pages(tag) ==
    { Ok(<<Elem(tag, "1"), Elem(tag, "2")>>, Element(Str("token123"))),
      Ok(<<>>, Element(Str("token456"))),
      Ok(<<Elem(tag, "1")>>, Element(Str(" "))),
      Ok(<<Elem(tag, "3")>>, NoElement),
      Ok(<<Elem(tag, "1"), Elem(tag, "2")>>, Element(None)),
      Ok(<<Elem(tag, "2")>>, Element(Str(""))),
      Ok(<<>>, NoElement) }

\* failing answers: no connection, a non-success status, a body that is not
\* XML, and envelopes with an error element
TransportFailures ==
    { Response(FALSE, 0, FALSE, <<>>, <<>>, NoElement),
      Response(TRUE, 503, TRUE,
               <<ErrorElement(Str("badArgument"), Str("illegal"))>>, <<>>, NoElement),
      Response(TRUE, 404, FALSE, <<>>, <<>>, NoElement),
      Response(TRUE, 200, FALSE, <<>>, <<>>, NoElement) }

\* the code attribute of an error element: the eight codes of the protocol,
\* two that are not, or no attribute at all
ErrorCodes ==
    { Str("badArgument"), Str("badResumptionToken"), Str("badVerb"),
      Str("cannotDisseminateFormat"), Str("idDoesNotExist"), Str("noRecordsMatch"),
      Str("noMetadataFormats"), Str("noSetHierarchy"),
      Str("BadArgument"), Str(""), None }

ErrorTexts == { Str("The request includes illegal arguments."), None }

\* envelopes with error elements: one, two, and one next to result elements
\* and a resumption token
ProtocolErrors(tag) ==
    { Response(TRUE, 200, TRUE, <<ErrorElement(c, m)>>, <<>>, NoElement) :
        c \in ErrorCodes, m \in ErrorTexts }
    \cup
    { Response(TRUE, 200, TRUE,
               <<ErrorElement(Str("noRecordsMatch"), Str("first")),
                 ErrorElement(Str("badArgument"), Str("second"))>>, <<>>, NoElement),
      Response(TRUE, 200, TRUE,
               <<ErrorElement(None, None),
                 ErrorElement(Str("badVerb"), Str("second"))>>, <<>>, NoElement),
      Response(TRUE, 200, TRUE,
               <<ErrorElement(Str("badVerb"), None)>>,
               <<Elem(tag, "1")>>, Element(Str("token123"))) }

Failures(tag) == TransportFailures \cup ProtocolErrors(tag)

Responses(verb) == Pages(ElementTag(verb)) \cup Failures(ElementTag(verb))

(***************************************************************************)
(* What the caller may call.                                               *)
(***************************************************************************)
\* optional arguments: None, the empty string, a string, a naive datetime
\* and an aware datetime whose conversion to UTC changes the day
FromDates ==
    { None, Str(""), Str("2024-01-01"), DateTime(2024, 1, 1, 12, 0, 0, NoTz) }

\* and one whose conversion to UTC leaves the years a datetime holds
UntilDates ==
    { None, DateTime(2024, 2, 29, 23, 30, 5, Tz(-300)),
      DateTime(9999, 12, 31, 23, 30, 0, Tz(-60)) }

SetSpecs == { None, Str(""), Str("cs") }

Identifiers == { None, Str(""), Str("oai:arXiv.org:cs/0012001") }

Calls ==
    { [verb |-> "ListSets", args |-> NoArgs] }
    \cup
    { [verb |-> "ListMetadataFormats", args |-> Args(i, None, None, None, None)] :
        i \in Identifiers }
    \cup
    { [verb |-> v, args |-> Args(None, Str("oai_dc"), f, u, s)] :
        v \in {"ListIdentifiers", "ListRecords"},
        f \in FromDates, u \in UntilDates, s \in SetSpecs }

(***************************************************************************)
(* The state after construction: OAIClient(base_url, use_post=...).        *)
(***************************************************************************)
BaseUrl == "https://export.arxiv.org/oai2"

Init ==
    /\ client \in {[base_url |-> BaseUrl, use_post |-> p] : p \in BOOLEAN}
    /\ gens = <<>>
    /\ running = 0
    /\ log = <<>>

(***************************************************************************)
(* The actions.                                                            *)
(***************************************************************************)
\* a method that fetches the first page as soon as it is called
CallEager(verb, args) ==
    /\ running = 0
    /\ gens = <<>>
    /\ ~InitialParams(verb, args).raised
    /\ gens' = <<[NewGen(verb, args) EXCEPT !.pc = "request",
                                            !.params = InitialParams(verb, args).value]>>
    /\ running' = 1
    /\ UNCHANGED <<client, log>>

\* calling a generator method: Python creates the generator and runs none
\* of its body (here the caller starts one traversal on the client)
Call(verb, args) ==
    /\ running = 0
    /\ gens = <<>>
    /\ gens' = Append(gens, NewGen(verb, args))
    /\ UNCHANGED <<client, running, log>>

\* a second call that picks up the state the first traversal left behind
CallAgainResuming(verb, args) ==
    /\ running = 0
    /\ Len(gens) = 1
    /\ gens' = Append(gens, [gens[1] EXCEPT !.verb = verb, !.args = args])
    /\ UNCHANGED <<client, running, log>>

\* a further call of a generator method on the same client, while the
\* generator of the first call is suspended or over: a new generator
CallAgain(verb, args) ==
    /\ running = 0
    /\ Len(gens) = 1
    /\ gens' = Append(gens, NewGen(verb, args))
    /\ UNCHANGED <<client, running, log>>

\* the consumer's next(gen): starts the body, which builds its params and
\* may fail there; resumes it after the yield; or gets StopIteration from a
\* finished generator
Pull(t) ==
    /\ running = 0
    /\ t \in 1..Len(gens)
    /\ Count("next") < MaxPulls
    /\ LET g == gens[t]
           params == InitialParams(g.verb, g.args)
       IN CASE g.pc = "created" /\ params.raised ->
                 /\ gens' = [gens EXCEPT ![t] = AfterFailure(g)]
                 /\ log' = log \o <<NextEvent(t),
                                    RaiseEvent(t, params.kind, params.message)>>
                 /\ UNCHANGED running
            [] g.pc = "created" /\ ~params.raised ->
                 /\ gens' = [gens EXCEPT ![t].pc = "request",
                                         ![t].params = params.value]
                 /\ running' = t
                 /\ log' = Append(log, NextEvent(t))
            [] g.pc = "yielded" ->
                 /\ gens' = [gens EXCEPT ![t].pc = "iterate"]
                 /\ running' = t
                 /\ log' = Append(log, NextEvent(t))
            [] OTHER ->
                 /\ log' = log \o <<NextEvent(t), StopEvent(t)>>
                 /\ UNCHANGED <<gens, running>>
    /\ UNCHANGED client

\* a dispatch that keeps the parsed tree on the client, where every
\* generator reads it
DispatchSharedXml(t, resp) ==
    /\ running = t
    /\ t \in 1..Len(gens)
    /\ gens[t].pc = "request"
    /\ Count("request") < MaxRequests
    /\ LET g == gens[t]
           request == HttpRequest(client, BuildParams(g.verb, g.params))
           out == HandleResponse(resp)
       IN IF out.raised
          THEN /\ log' = log \o <<RequestEvent(t, request, resp),
                                  RaiseEvent(t, out.kind, out.message)>>
               /\ gens' = [gens EXCEPT ![t] = AfterFailure(g)]
               /\ running' = 0
          ELSE /\ log' = Append(log, RequestEvent(t, request, resp))
               /\ gens' = [k \in DOMAIN gens |->
                             IF k = t
                             THEN [gens[k] EXCEPT !.pc = "iterate",
                                                  !.xml = out.value, !.idx = 0]
                             ELSE [gens[k] EXCEPT !.xml = out.value]]
               /\ running' = t
    /\ UNCHANGED client

\* xml = self._request(verb, **params) in the running generator: one HTTP
\* request; the exception of a failed dispatch ends the generator
Dispatch(t, resp) ==
    /\ running = t
    /\ t \in 1..Len(gens)
    /\ gens[t].pc = "request"
    /\ Count("request") < MaxRequests
    /\ LET g == gens[t]
           request == HttpRequest(client, BuildParams(g.verb, g.params))
           out == HandleResponse(resp)
       IN IF out.raised
          THEN /\ log' = log \o <<RequestEvent(t, request, resp),
                                  RaiseEvent(t, out.kind, out.message)>>
               /\ gens' = [gens EXCEPT ![t] = AfterFailure(g)]
               /\ running' = 0
          ELSE /\ log' = Append(log, RequestEvent(t, request, resp))
               /\ gens' = [gens EXCEPT ![t].pc = "iterate",
                                       ![t].xml = out.value,
                                       ![t].idx = 0]
               /\ running' = t
    /\ UNCHANGED client

\* a loop that takes a page without result elements for the last one
AdvanceStopsOnEmptyPage(t) ==
    /\ running = t
    /\ t \in 1..Len(gens)
    /\ gens[t].pc = "iterate"
    /\ LET g == gens[t]
           elements == findall(g.xml, ElementTag(g.verb))
       IN IF g.idx < Len(elements)
          THEN /\ log' = Append(log, YieldEvent(t,
                                   from_xml(EntityClass(g.verb), NextElement(elements, g.idx))))
               /\ gens' = [gens EXCEPT ![t].pc = "yielded", ![t].idx = g.idx + 1]
               /\ running' = 0
          ELSE IF ~Paginated(g.verb) \/ LastPage(g.xml.token) \/ elements = <<>>
               THEN /\ log' = Append(log, StopEvent(t))
                    /\ gens' = [gens EXCEPT ![t].pc = "finished"]
                    /\ running' = 0
               ELSE /\ gens' = [gens EXCEPT ![t].pc = "request",
                                            ![t].params = ResumptionParams(g.params, g.xml.token)]
                    /\ UNCHANGED <<log, running>>
    /\ UNCHANGED client

\* the for loop over the page's elements and what follows it: yield the
\* next element, or, when there is none left, end on a last page and
\* otherwise set the params of the next request
Advance(t) ==
    /\ running = t
    /\ t \in 1..Len(gens)
    /\ gens[t].pc = "iterate"
    /\ LET g == gens[t]
           elements == findall(g.xml, ElementTag(g.verb))
       IN IF g.idx < Len(elements)
          THEN /\ log' = Append(log, YieldEvent(t,
                                   from_xml(EntityClass(g.verb), NextElement(elements, g.idx))))
               /\ gens' = [gens EXCEPT ![t].pc = "yielded", ![t].idx = g.idx + 1]
               /\ running' = 0
          ELSE IF ~Paginated(g.verb) \/ LastPage(g.xml.token)
               THEN /\ log' = Append(log, StopEvent(t))
                    /\ gens' = [gens EXCEPT ![t].pc = "finished"]
                    /\ running' = 0
               ELSE /\ gens' = [gens EXCEPT ![t].pc = "request",
                                            ![t].params = ResumptionParams(g.params, g.xml.token)]
                    /\ UNCHANGED <<log, running>>
    /\ UNCHANGED client

\* a method that returns None when the mandatory element is missing
MissingElementReturnsNone(verb) == ReturnEvent(0, None)

\* raise OAIError("Invalid response: missing Identify element") and
\* raise OAIError("Invalid response: missing record element")
MissingElement(verb) ==
    RaiseEvent(0, "OAIError",
               "Invalid response: missing " \o ElementTag(verb) \o " element")

\* OAIClient.identify and OAIClient.get_record: one dispatch, then the
\* mandatory element or an OAIError
Single(verb, kwargs, resp) ==
    /\ running = 0
    /\ Count("request") < MaxSingle
    /\ LET request == HttpRequest(client, BuildParams(verb, kwargs))
           out == HandleResponse(resp)
           element == IF verb = "Identify"
                      THEN find_child(out.value, ElementTag(verb))
                      ELSE find(out.value, ElementTag(verb))
           result ==
               IF out.raised THEN RaiseEvent(0, out.kind, out.message)
               ELSE IF element = None
                    THEN MissingElement(verb)
                    ELSE ReturnEvent(0, from_xml(EntityClass(verb), element.element))
       IN log' = log \o <<RequestEvent(0, request, resp), result>>
    /\ UNCHANGED <<client, gens, running>>

Identify(resp) == Single("Identify", EmptyDict, resp)

GetRecord(identifier, metadata_prefix, resp) ==
    Single("GetRecord",
           [identifier |-> identifier, metadataPrefix |-> metadata_prefix], resp)

Next ==
    \/ \E c \in Calls : Call(c.verb, c.args)
    \/ \E t \in DOMAIN gens : Pull(t)
    \/ \E t \in DOMAIN gens : \E resp \in Responses(gens[t].verb) : Dispatch(t, resp)
    \/ \E t \in DOMAIN gens : Advance(t)

Spec == Init /\ [][Next]_vars

\* the consumer goes on pulling, the generator body goes on running, and
\* every request gets an answer or fails (the client is built with a timeout)
SpecFair ==
    /\ Spec
    /\ WF_vars(\E t \in DOMAIN gens : Pull(t))
    /\ WF_vars(\E t \in DOMAIN gens : \E resp \in Responses(gens[t].verb) : Dispatch(t, resp))
    /\ WF_vars(\E t \in DOMAIN gens : Advance(t))

\* the methods that are not generators
\* envelopes that hold the element of identify or get_record at another
\* depth than the protocol's, alone or inside a record's metadata
Misplaced(tag) ==
    { Ok(<<ElemAt(tag, "1", depth)>>, NoElement) : depth \in {1, 2, 3} }
    \cup
    { Ok(<<ElemAt("record", "r", 2), ElemAt("Identify", "1", 4)>>, NoElement),
      Ok(<<ElemAt("Identify", "1", 2), ElemAt("Identify", "2", 1)>>, NoElement) }

ResponsesSingle(verb) == Responses(verb) \cup Misplaced(ElementTag(verb))

NextSingle ==
    \/ \E resp \in ResponsesSingle("Identify") : Identify(resp)
    \/ \E resp \in ResponsesSingle("GetRecord") :
          GetRecord(Str("oai:arXiv.org:cs/0012001"), Str("oai_dc"), resp)

SpecSingle == Init /\ [][NextSingle]_vars

(***************************************************************************)
(* Two traversals on one client, pulled in any order.                      *)
(***************************************************************************)
CallsTwo ==
    { [verb |-> "ListSets", args |-> NoArgs],
      [verb |-> "ListRecords", args |-> Args(None, Str("oai_dc"), None, None, Str("cs"))] }

ResponsesTwo(verb) ==
    LET tag == ElementTag(verb)
    IN { Ok(<<Elem(tag, "1"), Elem(tag, "2")>>, Element(Str("token123"))),
         Ok(<<>>, Element(Str("token456"))),
         Ok(<<Elem(tag, "3")>>, NoElement),
         Response(TRUE, 200, TRUE,
                  <<ErrorElement(Str("badResumptionToken"), None)>>, <<>>, NoElement) }

NextTwo ==
    \/ \E c \in CallsTwo : Call(c.verb, c.args)
    \/ \E c \in CallsTwo : CallAgain(c.verb, c.args)
    \/ \E t \in DOMAIN gens : Pull(t)
    \/ \E t \in DOMAIN gens : \E resp \in ResponsesTwo(gens[t].verb) : Dispatch(t, resp)
    \/ \E t \in DOMAIN gens : Advance(t)

SpecTwo == Init /\ [][NextTwo]_vars

(***************************************************************************)
(* The datestamp formatter on its own: the values a caller may pass as     *)
(* from_date / until_date, and the formatting of one of them.              *)
(***************************************************************************)
DatestampInputs ==
    { Str(""), Str("2024-01-01"), Str("2024-01-01T12:00:00Z"),
      DateTime(2024, 1, 1, 12, 0, 0, NoTz),
      DateTime(2024, 1, 1, 12, 0, 0, Tz(0)),
      DateTime(2024, 1, 1, 13, 0, 0, Tz(60)),
      DateTime(2024, 1, 1, 7, 0, 0, Tz(-300)),
      DateTime(2023, 12, 31, 23, 30, 0, NoTz),
      DateTime(2024, 1, 1, 0, 30, 0, Tz(60)),
      DateTime(2024, 3, 1, 4, 30, 5, NoTz),
      DateTime(2024, 2, 29, 23, 30, 5, Tz(-300)),
      DateTime(2023, 2, 28, 18, 45, 0, NoTz),
      DateTime(2023, 3, 1, 0, 15, 0, Tz(330)),
      DateTime(9999, 12, 31, 23, 30, 0, NoTz),
      DateTime(9999, 12, 31, 22, 30, 0, Tz(-60)),
      DateTime(9999, 12, 31, 23, 30, 0, Tz(-60)),
      DateTime(1, 1, 1, 0, 30, 0, NoTz),
      DateTime(1, 1, 1, 0, 30, 0, Tz(60)) }

FormatEvent(dt, result) ==
    [type |-> "format", gen |-> 0, input |-> dt, output |-> result]

\* self._format_datestamp(dt)
FormatDatestamp(dt) ==
    /\ Len(log) < MaxFormats
    /\ log' = Append(log, FormatEvent(dt, _format_datestamp(dt)))
    /\ UNCHANGED <<client, gens, running>>

NextDatestamp == \E dt \in DatestampInputs : FormatDatestamp(dt)

SpecDatestamp == Init /\ [][NextDatestamp]_vars

(***************************************************************************)
(* Reading the log.                                                        *)
(***************************************************************************)
EventsOf(t) == SelectSeq(log, LAMBDA e : e.gen = t)

Only(events, type) == SelectSeq(events, LAMBDA e : e.type = type)

RequestsOf(t) == Only(EventsOf(t), "request")

ItemsOf(events) ==
    LET Y == Only(events, "yield") IN [j \in 1..Len(Y) |-> Y[j].item]

Before(events, i) == SubSeq(events, 1, i - 1)

After(events, i) == SubSeq(events, i + 1, Len(events))

IsPrefix(a, b) == Len(a) <= Len(b) /\ a = SubSeq(b, 1, Len(a))

\* a response the dispatch accepts: HTTP 200, well-formed, no error element
IsPage(resp) ==
    resp.connected /\ resp.status = 200 /\ resp.wellformed /\ resp.errors = <<>>

\* an envelope with at least one error element
IsProtocolError(resp) ==
    resp.connected /\ resp.status = 200 /\ resp.wellformed /\ resp.errors # <<>>

\* the text of the resumption-token element of a response, None without one
TokenText(resp) == IF resp.token = NoElement THEN None ELSE resp.token.text

HasNoToken(resp) == TokenText(resp) \in {None, Str("")}

Whitespace == {" ", "  ", "\n", "\t"}

HasBlankToken(resp) == TokenText(resp) \in {Str(w) : w \in Whitespace}

\* the entities of a page in document order; a failed dispatch delivers none
PageItems(verb, resp) ==
    IF IsPage(resp)
    THEN [j \in 1..Len(resp.elements) |->
             [cls |-> EntityClass(verb), element |-> resp.elements[j].id]]
    ELSE <<>>

RECURSIVE ConcatPages(_, _, _)
ConcatPages(verb, requests, k) ==
    IF k = 0 THEN <<>>
    ELSE ConcatPages(verb, requests, k - 1) \o PageItems(verb, requests[k].response)

\* the position in events of its k-th request
RECURSIVE RequestPos(_, _, _)
RequestPos(events, k, from) ==
    IF from > Len(events) THEN Len(events) + 1
    ELSE IF events[from].type = "request"
         THEN IF k = 1 THEN from ELSE RequestPos(events, k - 1, from + 1)
         ELSE RequestPos(events, k, from + 1)

\* the events of a traversal between its k-th request and the next one
Segment(events, k) ==
    SubSeq(events, RequestPos(events, k, 1) + 1, RequestPos(events, k + 1, 1) - 1)

PaginatedGens == {t \in DOMAIN gens : Paginated(gens[t].verb)}

(***************************************************************************)
(* C1: in a traversal of list_records, list_identifiers or list_sets every *)
(* request after the first carries exactly verb and resumptionToken, the   *)
(* latter being the token of the immediately preceding response; none of   *)
(* metadataPrefix, from, until, set appears again.                         *)
(***************************************************************************)
C1_ResumptionRequestHasOnlyToken ==
    \A t \in PaginatedGens :
        LET R == RequestsOf(t)
        IN \A i \in 2..Len(R) :
              LET p == R[i].request.params
              IN /\ DOMAIN p = {"verb", "resumptionToken"}
                 /\ p.verb = gens[t].verb
                 /\ Str(p.resumptionToken) = TokenText(R[i - 1].response)

C1_Witness ==
    /\ Len(gens) = 1
    /\ gens[1].verb = "ListRecords"
    /\ LET R == RequestsOf(1)
       IN /\ Len(R) = 3
          /\ {"metadataPrefix", "from", "until", "set"} \subseteq DOMAIN R[1].request.params
          /\ TokenText(R[1].response) # TokenText(R[2].response)
          /\ R[3].request.params.resumptionToken = "token456"

(***************************************************************************)
(* C2: in a paginated traversal a response without a resumption-token      *)
(* element, or with one whose text is empty, is the last one requested:    *)
(* its elements are yielded, then the sequence ends, and no request        *)
(* follows it.                                                             *)
(***************************************************************************)
C2_NoRequestAfterTokenlessPage ==
    \A t \in PaginatedGens :
        LET E == EventsOf(t)
        IN \A i \in 1..Len(E) :
              (E[i].type = "request" /\ IsPage(E[i].response)
                 /\ HasNoToken(E[i].response))
              => /\ Only(After(E, i), "request") = <<>>
                 /\ Only(After(E, i), "raise") = <<>>
                 /\ IsPrefix(ItemsOf(After(E, i)),
                             PageItems(gens[t].verb, E[i].response))
                 /\ gens[t].pc = "finished"
                    => ItemsOf(After(E, i)) = PageItems(gens[t].verb, E[i].response)

C2_Witness ==
    /\ Len(gens) = 1
    /\ gens[1].verb = "ListIdentifiers"
    /\ gens[1].pc = "finished"
    /\ LET R == RequestsOf(1)
       IN /\ Len(R) = 2
          /\ R[2].response.token = Element(None)
          /\ Len(R[2].response.elements) = 2
    /\ Len(ItemsOf(EventsOf(1))) = 4
    /\ Len(Only(EventsOf(1), "stop")) = 2

(***************************************************************************)
(* C3: a response whose resumption-token element is blank (whitespace      *)
(* only) ends the pagination: no request is issued after it.               *)
(***************************************************************************)
C3_BlankTokenEndsPagination ==
    \A t \in PaginatedGens :
        LET E == EventsOf(t)
        IN \A i \in 1..Len(E) :
              (E[i].type = "request" /\ IsPage(E[i].response)
                 /\ HasBlankToken(E[i].response))
              => Only(After(E, i), "request") = <<>>

(***************************************************************************)
(* C4: items are yielded in page order and, within a page, in document     *)
(* order: what is yielded between the request of page n and the request of *)
(* page n+1 is exactly page n's elements in order, and what is yielded     *)
(* after the last request is a prefix of that page's elements.             *)
(***************************************************************************)
C4_PageOrder ==
    \A t \in DOMAIN gens :
        LET E == EventsOf(t)
            n == Len(RequestsOf(t))
        IN /\ ItemsOf(Before(E, RequestPos(E, 1, 1))) = <<>>
           /\ \A k \in 1..n :
                 LET page == PageItems(gens[t].verb, RequestsOf(t)[k].response)
                     got  == ItemsOf(Segment(E, k))
                 IN IF k < n THEN got = page ELSE IsPrefix(got, page)

C4_Witness ==
    /\ Len(gens) = 1
    /\ gens[1].verb = "ListSets"
    /\ LET R == RequestsOf(1)
       IN /\ Len(R) = 2
          /\ Len(R[1].response.elements) = 2
          /\ Len(R[2].response.elements) = 1
    /\ ItemsOf(EventsOf(1)) =
          <<[cls |-> "Set", element |-> "1"], [cls |-> "Set", element |-> "2"],
            [cls |-> "Set", element |-> "1"]>>

(***************************************************************************)
(* C5: the sequences are lazy: every request is made inside a pull of the  *)
(* consumer (the event before it, other than requests, is a next() that    *)
(* has got no answer yet), so none is made before the first pull or after  *)
(* the consumer stopped; and with p pulls made, page n is requested only   *)
(* if pages 1..n-1 hold fewer than p elements.                             *)
(***************************************************************************)
RECURSIVE CountItems(_, _, _)
CountItems(verb, requests, k) ==
    IF k = 0 THEN 0
    ELSE CountItems(verb, requests, k - 1) + Len(PageItems(verb, requests[k].response))

C5_Lazy ==
    \A t \in DOMAIN gens :
        LET E == EventsOf(t)
            R == RequestsOf(t)
        IN /\ \A i \in 1..Len(E) :
                 E[i].type = "request"
                 => LET prior == SelectSeq(Before(E, i), LAMBDA e : e.type # "request")
                    IN prior # <<>> /\ prior[Len(prior)].type = "next"
           /\ Len(R) >= 1
              => CountItems(gens[t].verb, R, Len(R) - 1) < Len(Only(E, "next"))

C5_Witness ==
    /\ Len(gens) = 1
    /\ gens[1].verb = "ListRecords"
    /\ gens[1].pc = "yielded"
    /\ running = 0
    /\ LET R == RequestsOf(1)
       IN /\ Len(R) = 1
          /\ Len(R[1].response.elements) = 2
          /\ TokenText(R[1].response) = Str("token123")
    /\ Len(ItemsOf(EventsOf(1))) = 2

(***************************************************************************)
(* C6: the first request of a verb method holds every optional argument    *)
(* that is not None with the value given (dates formatted) and has no      *)
(* entry for one that is None; no parameter is sent as an empty string.    *)
(***************************************************************************)
\* the optional arguments of a verb method: wire name and value given
OptionalArgs(verb, args) ==
    CASE verb = "ListMetadataFormats" -> {<<"identifier", args.identifier>>}
      [] verb \in {"ListIdentifiers", "ListRecords"} ->
            {<<"from", args.from_date>>, <<"until", args.until_date>>,
             <<"set", args.set_spec>>}
      [] OTHER -> {}

\* the value on the wire of an argument that is given
WireValue(name, value) ==
    IF name \in {"from", "until"} THEN _format_datestamp(value).value ELSE value.s

C6_OptionalParamsVerbatim ==
    \A t \in DOMAIN gens :
        LET R == RequestsOf(t)
        IN Len(R) >= 1
           => LET p == R[1].request.params
              IN /\ \A a \in OptionalArgs(gens[t].verb, gens[t].args) :
                       IF a[2] = None
                       THEN a[1] \notin DOMAIN p
                       ELSE a[1] \in DOMAIN p /\ p[a[1]] = WireValue(a[1], a[2])
                 /\ \A k \in DOMAIN p : p[k] # ""

(***************************************************************************)
(* C7: an envelope with a direct-child error element makes the dispatch    *)
(* fail; each of the eight protocol codes selects its own exception class, *)
(* any other code or a missing code attribute selects OAIError, and the    *)
(* message is the element's text, or "" without text.                      *)
(***************************************************************************)
C7_ErrorMapping ==
    \A i \in 1..Len(log) :
        (log[i].type = "request" /\ IsProtocolError(log[i].response))
        => LET error == log[i].response.errors[1]
               code  == error.code
               fail  == log[i + 1]
           IN /\ i < Len(log)
              /\ fail.type = "raise"
              /\ fail.gen = log[i].gen
              /\ (code = Str("badArgument")) <=> (fail.kind = "BadArgumentError")
              /\ (code = Str("badResumptionToken")) <=> (fail.kind = "BadResumptionTokenError")
              /\ (code = Str("badVerb")) <=> (fail.kind = "BadVerbError")
              /\ (code = Str("cannotDisseminateFormat"))
                    <=> (fail.kind = "CannotDisseminateFormatError")
              /\ (code = Str("idDoesNotExist")) <=> (fail.kind = "IdDoesNotExistError")
              /\ (code = Str("noRecordsMatch")) <=> (fail.kind = "NoRecordsMatchError")
              /\ (code = Str("noMetadataFormats")) <=> (fail.kind = "NoMetadataFormatsError")
              /\ (code = Str("noSetHierarchy")) <=> (fail.kind = "NoSetHierarchyError")
              /\ (code \in {Str("BadArgument"), Str(""), None}) <=> (fail.kind = "OAIError")
              /\ fail.message = IF error.text = None THEN "" ELSE error.text.s

C7_Witness ==
    /\ Len(log) = 5
    /\ log[4].type = "request"
    /\ log[4].response.errors = <<ErrorElement(Str("noSetHierarchy"), None)>>
    /\ log[4].request.params.verb = "ListSets"
    /\ log[5] = RaiseEvent(1, "NoSetHierarchyError", "")

(***************************************************************************)
(* C8: when the dispatch for page n > 1 fails, every element of pages      *)
(* 1..n-1 has been yielded before, the failure is raised in the pull that  *)
(* needed page n (the one after as many pulls as those pages hold          *)
(* elements), and afterwards the generator is finished: pulling it yields  *)
(* nothing and makes no request.                                           *)
(***************************************************************************)
C8_FailureMidTraversal ==
    \A t \in PaginatedGens :
        LET E == EventsOf(t)
        IN \A i \in 1..Len(E) :
              (E[i].type = "raise" /\ Len(Only(Before(E, i), "request")) > 1)
              => LET R == Only(Before(E, i), "request")
                     delivered == ConcatPages(gens[t].verb, R, Len(R) - 1)
                 IN /\ ItemsOf(Before(E, i)) = delivered
                    /\ E[i - 1].type = "request"
                    /\ Len(Only(Before(E, i), "next")) = Len(delivered) + 1
                    /\ \A j \in (i + 1)..Len(E) : E[j].type \in {"next", "stop"}
                    /\ Len(Only(After(E, i), "next")) = Len(Only(After(E, i), "stop"))
                    /\ gens[t].pc = "finished"

C8_Witness ==
    /\ Len(gens) = 1
    /\ gens[1].pc = "finished"
    /\ LET E == EventsOf(1)
       IN /\ Len(Only(E, "request")) = 2
          /\ Len(ItemsOf(E)) = 2
          /\ Len(E) = 10
          /\ E[8].type = "raise"
          /\ E[8].kind = "BadResumptionTokenError"
          /\ E[10].type = "stop"

(***************************************************************************)
(* C9: get_record on a response with neither an error element nor a record *)
(* element, and identify on one with neither an error element nor an       *)
(* Identify child, return nothing and fail with a kind of their own.  What *)
(* the code does: each raises OAIError, the class that an unrecognised     *)
(* error code selects, with a message naming the missing element.          *)
(***************************************************************************)
\* the responses that lack the mandatory element of the method called
LacksMandatory(event) ==
    /\ event.type = "request"
    /\ event.gen = 0
    /\ IsPage(event.response)
    /\ \A j \in 1..Len(event.response.elements) :
          LET e == event.response.elements[j]
          IN IF event.request.params.verb = "Identify"
             THEN ~(e.tag = "Identify" /\ e.depth = 1)
             ELSE e.tag # "record"

C9_MissingElementRaisesOAIError ==
    \A i \in 1..Len(log) :
        LacksMandatory(log[i])
        => /\ i < Len(log)
           /\ log[i + 1].type = "raise"
           /\ log[i + 1].kind = "OAIError"
           /\ log[i + 1].message =
                 IF log[i].request.params.verb = "GetRecord"
                 THEN "Invalid response: missing record element"
                 ELSE "Invalid response: missing Identify element"

C9_Witness ==
    /\ Len(log) = 4
    /\ LacksMandatory(log[1])
    /\ LacksMandatory(log[3])
    /\ log[1].request.params.verb = "Identify"
    /\ log[3].request.params =
          [verb |-> "GetRecord", identifier |-> "oai:arXiv.org:cs/0012001",
           metadataPrefix |-> "oai_dc"]
    /\ log[2].type = "raise"
    /\ log[4].type = "raise"

\* the kinds of failure of a dispatch: transport, malformed response and
\* the protocol errors
DispatchFailureKinds ==
    {"httpx.ConnectError", "httpx.HTTPStatusError", "lxml.etree.XMLSyntaxError",
     "OAIError", "BadArgumentError", "BadResumptionTokenError", "BadVerbError",
     "CannotDisseminateFormatError", "IdDoesNotExistError", "NoRecordsMatchError",
     "NoMetadataFormatsError", "NoSetHierarchyError"}

\* C9 as stated: the failure is of a kind of its own, StructuralError,
\* distinct from the transport, malformed-response and protocol-error kinds
C9_StructuralErrorIsDistinct ==
    \A i \in 1..Len(log) :
        LacksMandatory(log[i])
        => /\ i < Len(log)
           /\ log[i + 1].type = "raise"
           /\ log[i + 1].kind \notin DispatchFailureKinds

(***************************************************************************)
(* C10: a paginated traversal that ended without a failure requested       *)
(* exactly the pages up to the first one without a non-empty token, and    *)
(* yielded the concatenation of their elements in order.                   *)
(***************************************************************************)
C10_FullTraversal ==
    \A t \in PaginatedGens :
        LET E == EventsOf(t)
            R == RequestsOf(t)
            n == Len(R)
        IN (gens[t].pc = "finished" /\ Only(E, "raise") = <<>>)
           => /\ n >= 1
              /\ \A k \in 1..n : IsPage(R[k].response)
              /\ \A k \in 1..(n - 1) : ~HasNoToken(R[k].response)
              /\ HasNoToken(R[n].response)
              /\ ItemsOf(E) = ConcatPages(gens[t].verb, R, n)

\* two records and token123, then one record and no token: three records,
\* two requests
C10_Witness ==
    /\ Len(gens) = 1
    /\ gens[1].verb = "ListRecords"
    /\ gens[1].pc = "finished"
    /\ LET R == RequestsOf(1)
       IN /\ Len(R) = 2
          /\ R[1].request.params = [verb |-> "ListRecords", metadataPrefix |-> "oai_dc"]
          /\ R[1].response = Ok(<<Elem("record", "1"), Elem("record", "2")>>,
                                Element(Str("token123")))
          /\ R[2].request.params = [verb |-> "ListRecords", resumptionToken |-> "token123"]
          /\ R[2].response = Ok(<<Elem("record", "3")>>, NoElement)
    /\ ItemsOf(EventsOf(1)) =
          <<[cls |-> "Record", element |-> "1"], [cls |-> "Record", element |-> "2"],
            [cls |-> "Record", element |-> "3"]>>

(***************************************************************************)
(* C11: a dispatch makes one HTTP request whether it succeeds or fails:    *)
(* a request that fails (transport, malformed body, protocol error) is     *)
(* followed at once by its one exception and by no other request of the    *)
(* traversal, so nothing is re-sent, the first request included, and the   *)
(* requests are as many as the pages received plus the failed dispatch.    *)
(***************************************************************************)
C11_OneRequestPerDispatch ==
    \A t \in DOMAIN gens :
        LET E == EventsOf(t)
            R == RequestsOf(t)
        IN /\ \A i \in 1..Len(E) :
                 (E[i].type = "request" /\ ~IsPage(E[i].response))
                 => /\ i < Len(E)
                    /\ E[i + 1].type = "raise"
                    /\ Only(After(E, i), "request") = <<>>
           /\ Len(Only(E, "raise")) <= 1
           /\ Len(R) = Len(SelectSeq(R, LAMBDA e : IsPage(e.response)))
                         + Cardinality({i \in 2..Len(E) :
                               E[i].type = "raise" /\ E[i - 1].type = "request"})
           /\ \A i \in 2..Len(R) : R[i].request # R[1].request

C11_Witness ==
    /\ Len(gens) = 1
    /\ gens[1].verb = "ListRecords"
    /\ LET E == EventsOf(1)
           R == RequestsOf(1)
       IN /\ Len(R) = 2
          /\ R[2].response.errors =
                <<ErrorElement(Str("badResumptionToken"), None)>>
          /\ Len(Only(E, "raise")) = 1
          /\ Len(Only(E, "stop")) = 2
          /\ E[Len(E)].type = "stop"

(***************************************************************************)
(* C12: list_metadata_formats is not paginated: it makes one request, also *)
(* when the response holds a non-empty resumption token, and it never      *)
(* sends a resumptionToken parameter.                                      *)
(***************************************************************************)
C12_MetadataFormatsOneRequest ==
    \A t \in DOMAIN gens :
        gens[t].verb = "ListMetadataFormats"
        => LET R == RequestsOf(t)
           IN /\ Len(R) <= 1
              /\ gens[t].pc = "finished" => Len(R) = 1
              /\ \A i \in 1..Len(R) :
                    "resumptionToken" \notin DOMAIN R[i].request.params

C12_Witness ==
    /\ Len(gens) = 1
    /\ gens[1].verb = "ListMetadataFormats"
    /\ gens[1].pc = "finished"
    /\ LET E == EventsOf(1)
           R == RequestsOf(1)
       IN /\ Len(R) = 1
          /\ TokenText(R[1].response) = Str("token123")
          /\ Len(ItemsOf(E)) = 2
          /\ Len(Only(E, "stop")) = 2

(***************************************************************************)
(* C15: a dispatch fails on the first of three checks, in this order: the  *)
(* HTTP status (HTTPStatusError, whatever the body holds), the             *)
(* well-formedness of the body (XMLSyntaxError), the error element (a      *)
(* protocol error, after which nothing of that response is yielded and its *)
(* token is not followed).                                                 *)
(***************************************************************************)
ProtocolErrorKinds ==
    DispatchFailureKinds
      \ {"httpx.ConnectError", "httpx.HTTPStatusError", "lxml.etree.XMLSyntaxError"}

C15_CheckOrder ==
    \A i \in 1..Len(log) :
        (log[i].type = "request" /\ log[i].response.connected)
        => LET resp == log[i].response
               goodStatus == resp.status >= 200 /\ resp.status < 300
               rest == SelectSeq(After(log, i), LAMBDA e : e.gen = log[i].gen)
           IN /\ ~goodStatus
                 => /\ i < Len(log)
                    /\ log[i + 1].type = "raise"
                    /\ log[i + 1].kind = "httpx.HTTPStatusError"
              /\ (goodStatus /\ ~resp.wellformed)
                 => /\ i < Len(log)
                    /\ log[i + 1].type = "raise"
                    /\ log[i + 1].kind = "lxml.etree.XMLSyntaxError"
              /\ (goodStatus /\ resp.wellformed /\ resp.errors # <<>>)
                 => /\ i < Len(log)
                    /\ log[i + 1].type = "raise"
                    /\ log[i + 1].kind \in ProtocolErrorKinds
                    /\ Only(rest, "yield") = <<>>
                    /\ Only(rest, "request") = <<>>

\* a 503 whose body is an envelope with an error element
C15_Witness ==
    /\ Len(gens) = 1
    /\ gens[1].verb = "ListIdentifiers"
    /\ Len(log) = 6
    /\ log[5].type = "request"
    /\ log[5].response.status = 503
    /\ log[5].response.errors # <<>>
    /\ log[6] = RaiseEvent(1, "httpx.HTTPStatusError", "")

(***************************************************************************)
(* C16: GET and POST differ in the encoding only: every request uses the   *)
(* method chosen at construction and the base URL, and the parameters sent *)
(* and the items yielded are those that the verb, its arguments and the    *)
(* responses determine, whatever the method.                               *)
(***************************************************************************)
C16_GetPostEquivalent ==
    /\ \A i \in 1..Len(log) :
          log[i].type = "request"
          => /\ log[i].request.method = IF client.use_post THEN "POST" ELSE "GET"
             /\ log[i].request.url = client.base_url
    /\ \A t \in DOMAIN gens :
          LET R == RequestsOf(t)
              verb == gens[t].verb
          IN /\ \A i \in 1..Len(R) :
                   R[i].request.params =
                      IF i = 1
                      THEN BuildParams(verb, InitialParams(verb, gens[t].args).value)
                      ELSE [verb |-> verb,
                            resumptionToken |-> TokenText(R[i - 1].response).s]
             /\ IsPrefix(ItemsOf(EventsOf(t)), ConcatPages(verb, R, Len(R)))

C16_Witness ==
    /\ client.use_post
    /\ Len(gens) = 1
    /\ gens[1].pc = "finished"
    /\ LET R == RequestsOf(1)
       IN /\ Len(R) = 2
          /\ R[1].request = [method |-> "POST", url |-> BaseUrl,
                             params |-> [verb |-> "ListRecords",
                                         metadataPrefix |-> "oai_dc"]]
          /\ R[2].request = [method |-> "POST", url |-> BaseUrl,
                             params |-> [verb |-> "ListRecords",
                                         resumptionToken |-> "token123"]]
    /\ Len(ItemsOf(EventsOf(1))) = 3

(***************************************************************************)
(* C18: of several error elements in one envelope the first in document    *)
(* order decides the failure: its code selects the exception class and its *)
(* text is the message; the response is never taken as a success.          *)
(***************************************************************************)
\* the exception class of a code attribute
ExpectedKind(code) ==
    CASE code = Str("badArgument") -> "BadArgumentError"
      [] code = Str("badResumptionToken") -> "BadResumptionTokenError"
      [] code = Str("badVerb") -> "BadVerbError"
      [] code = Str("cannotDisseminateFormat") -> "CannotDisseminateFormatError"
      [] code = Str("idDoesNotExist") -> "IdDoesNotExistError"
      [] code = Str("noRecordsMatch") -> "NoRecordsMatchError"
      [] code = Str("noMetadataFormats") -> "NoMetadataFormatsError"
      [] code = Str("noSetHierarchy") -> "NoSetHierarchyError"
      [] OTHER -> "OAIError"

C18_FirstErrorWins ==
    \A i \in 1..Len(log) :
        (log[i].type = "request" /\ IsProtocolError(log[i].response)
           /\ Len(log[i].response.errors) >= 2)
        => LET first == log[i].response.errors[1]
           IN /\ i < Len(log)
              /\ log[i + 1] = RaiseEvent(log[i].gen, ExpectedKind(first.code),
                                         IF first.text = None THEN "" ELSE first.text.s)

C18_Witness ==
    /\ Len(log) = 3
    /\ log[2].type = "request"
    /\ log[2].response.errors =
          <<ErrorElement(None, None), ErrorElement(Str("badVerb"), Str("second"))>>
    /\ log[3] = RaiseEvent(1, "OAIError", "")

(***************************************************************************)
(* C14: the datestamp formatter returns a string unchanged; every naive    *)
(* value, and every aware value of an instant within the years 1..9999, is *)
(* formatted; a date/time value that denotes the same UTC instant as       *)
(* another, a naive value being read as UTC, has the same outcome, so that *)
(* a naive value and its aware counterparts format to the same string; the *)
(* naive 2024-01-01 12:00:00 formats to 2024-01-01T12:00:00Z.              *)
(***************************************************************************)
\* days from 1970-01-01 to a date of the proleptic Gregorian calendar
DaysFromCivil(y, m, d) ==
    LET yy  == IF m <= 2 THEN y - 1 ELSE y
        era == yy \div 400
        yoe == yy % 400
        mp  == (m + 9) % 12
        doy == (153 * mp + 2) \div 5 + d - 1
        doe == yoe * 365 + yoe \div 4 - yoe \div 100 + doy
    IN era * 146097 + doe - 719468

\* the instant a date/time value denotes: the days from the epoch and the
\* seconds into the day, in UTC
Instant(dt) ==
    LET secs == dt.hour * 3600 + dt.minute * 60 + dt.second
                  - (IF dt.tzinfo = NoTz THEN 0 ELSE dt.tzinfo.offset * 60)
        days == DaysFromCivil(dt.year, dt.month, dt.day)
    IN <<days + (IF secs < 0 THEN -1 ELSE IF secs >= 86400 THEN 1 ELSE 0),
         secs % 86400>>

\* an aware value whose instant lies before year 1 or after year 9999
Unconvertible(date) ==
    /\ date.kind = "datetime"
    /\ date.tzinfo # NoTz
    /\ \/ Instant(date)[1] < DaysFromCivil(1, 1, 1)
       \/ Instant(date)[1] > DaysFromCivil(9999, 12, 31)

Formats == Only(log, "format")

C13_SinglePass ==
    \A t \in DOMAIN gens :
        LET E == EventsOf(t)
            R == RequestsOf(t)
        IN /\ \A i \in 1..Len(E) :
                 E[i].type \in {"stop", "raise"}
                 => /\ Only(After(E, i), "request") = <<>>
                    /\ Only(After(E, i), "yield") = <<>>
                    /\ Only(After(E, i), "raise") = <<>>
           /\ Len(R) >= 1
              => /\ "resumptionToken" \notin DOMAIN R[1].request.params
                 /\ R[1].request.params =
                       BuildParams(gens[t].verb, InitialParams(gens[t].verb, gens[t].args).value)

\* the first traversal went through two pages and was pulled again after
\* its end; a second call of the same method then sends its first request
C13_Witness ==
    /\ Len(gens) = 2
    /\ gens[1].verb = "ListRecords"
    /\ gens[2].verb = "ListRecords"
    /\ gens[1].pc = "finished"
    /\ Len(RequestsOf(1)) = 2
    /\ RequestsOf(1)[2].request.params.resumptionToken = "token456"
    /\ Len(Only(EventsOf(1), "stop")) = 2
    /\ Len(RequestsOf(2)) = 1
    /\ log[Len(log)] = RequestsOf(2)[1]
    /\ RequestsOf(2)[1].request.params =
          [verb |-> "ListRecords", metadataPrefix |-> "oai_dc", set |-> "cs"]

(***************************************************************************)
(* C17: traversals on one client, pulled in any interleaved order, do not  *)
(* interfere: the events of each one, taken alone, are those of a          *)
(* traversal run alone: its first request carries its own initial          *)
(* parameters, each later one the token of its own previous response,      *)
(* which was a page with a non-empty token; it yields its own pages in     *)
(* order, each page in full before the next request; and a traversal that  *)
(* ended without a failure yielded all of its pages.                       *)
(***************************************************************************)
C17_NoInterference ==
    \A t \in DOMAIN gens :
        LET E == EventsOf(t)
            R == RequestsOf(t)
            n == Len(R)
            verb == gens[t].verb
        IN /\ \A i \in 1..n :
                 R[i].request.params =
                    IF i = 1
                    THEN BuildParams(verb, InitialParams(verb, gens[t].args).value)
                    ELSE [verb |-> verb,
                          resumptionToken |-> TokenText(R[i - 1].response).s]
           /\ \A i \in 2..n :
                 IsPage(R[i - 1].response) /\ ~HasNoToken(R[i - 1].response)
           /\ \A k \in 1..n :
                 LET page == PageItems(verb, R[k].response)
                     got  == ItemsOf(Segment(E, k))
                 IN IF k < n THEN got = page ELSE IsPrefix(got, page)
           /\ (gens[t].pc = "finished" /\ Only(E, "raise") = <<>>)
              => /\ n >= 1
                 /\ HasNoToken(R[n].response)
                 /\ ItemsOf(E) = ConcatPages(verb, R, n)

\* the second traversal gets its only page between two requests of the
\* first one, which goes on with its own token
C17_Witness ==
    /\ Len(gens) = 2
    /\ LET P == Only(log, "request")
       IN /\ Len(P) = 3
          /\ P[1].gen = 1 /\ P[2].gen = 2 /\ P[3].gen = 1
          /\ P[1].response.token = Element(Str("token123"))
          /\ P[2].response.token = NoElement
          /\ P[3].request.params.resumptionToken = "token123"
    /\ Len(ItemsOf(EventsOf(1))) = 2
    /\ Len(ItemsOf(EventsOf(2))) = 1

(***************************************************************************)
(* C19: a paginated traversal ends only on a response that is a failure or *)
(* a page without a non-empty token, and, pulled on, it does end after     *)
(* such a response; a page without result elements but with a non-empty    *)
(* token is followed at once, inside the same pull, by the request for     *)
(* the next page; neither the number of pages nor a token seen before      *)
(* stops the requests.  What the code does besides: a traversal whose from *)
(* or until value has no UTC form ends at its first pull with the          *)
(* formatter's OverflowError and sends no request.                         *)
(***************************************************************************)
IsTerminal(resp) == ~IsPage(resp) \/ HasNoToken(resp)

Ended(t) == Only(EventsOf(t), "stop") # <<>> \/ Only(EventsOf(t), "raise") # <<>>

\* C19 as stated: a traversal ends only on a response of the server, a
\* failing one or a page without a non-empty token
C19_EndsOnlyOnResponse ==
    \A t \in PaginatedGens :
        Ended(t) => /\ RequestsOf(t) # <<>>
                    /\ IsTerminal(RequestsOf(t)[Len(RequestsOf(t))].response)

C19_EndsOnlyOnTerminal ==
    \A t \in PaginatedGens :
        LET E == EventsOf(t)
            R == RequestsOf(t)
            args == gens[t].args
        IN /\ Ended(t)
              => IF R # <<>> THEN IsTerminal(R[Len(R)].response)
                 ELSE /\ gens[t].verb \in {"ListIdentifiers", "ListRecords"}
                      /\ Unconvertible(args.from_date) \/ Unconvertible(args.until_date)
                      /\ E[1] = NextEvent(t)
                      /\ E[2] = RaiseEvent(t, "OverflowError", "date value out of range")
           /\ (R = <<>> /\ gens[t].verb \in {"ListIdentifiers", "ListRecords"}
                 /\ (Unconvertible(args.from_date) \/ Unconvertible(args.until_date))
                 /\ E # <<>>)
              => Ended(t)
           /\ \A i \in 1..Len(E) :
                 (E[i].type = "request" /\ IsPage(E[i].response)
                    /\ E[i].response.elements = <<>> /\ ~HasNoToken(E[i].response)
                    /\ i < Len(E))
                 => /\ E[i + 1].type = "request"
                    /\ E[i + 1].request.params.resumptionToken = TokenText(E[i].response).s

C19_TerminalReceived ==
    /\ Len(gens) = 1
    /\ Paginated(gens[1].verb)
    /\ RequestsOf(1) # <<>>
    /\ IsTerminal(RequestsOf(1)[Len(RequestsOf(1))].response)

C19_EndedOrNotPulled ==
    /\ Len(gens) = 1
    /\ Ended(1) \/ Count("next") >= MaxPulls

C19_Termination ==
    /\ []C19_EndsOnlyOnTerminal
    /\ C19_TerminalReceived ~> C19_EndedOrNotPulled

\* one pull sends three requests, the last two with the same token, through
\* two pages without elements; the third page ends the traversal
C19_Witness ==
    /\ Len(gens) = 1
    /\ gens[1].verb = "ListIdentifiers"
    /\ gens[1].pc = "finished"
    /\ LET E == EventsOf(1)
           R == RequestsOf(1)
       IN /\ Len(R) = 3
          /\ R[1].response.elements = <<>>
          /\ R[2].response = R[1].response
          /\ R[2].request.params.resumptionToken = "token456"
          /\ R[3].request = R[2].request
          /\ E[1].type = "next" /\ E[2].type = "request"
          /\ E[3].type = "request" /\ E[4].type = "request"
          /\ Len(ItemsOf(E)) = 1

====
